---- MODULE Spec2Model ----
(***************************************************************************)
(* Model of the VintageStory mod-database client (src/src/api.rs,         *)
(* src/src/models.rs, src/src/error.rs).                                  *)
(*                                                                         *)
(* One VintageStoryModDbApi value is shared by the callers.  Every public  *)
(* method is a sequence of steps of one caller: a step ends where the      *)
(* code takes or releases a cache mutex, or awaits the HTTP response.      *)
(* The remote service is the environment: every request is answered by a   *)
(* transport failure, an undecodable body, or one of a bounded set of      *)
(* payloads.                                                               *)
(***************************************************************************)
EXTENDS Integers, Sequences, FiniteSets, TLC

\* ------------------------------------------------------------------ bounds
NumCallers == 2      \* tasks sharing the client in the concurrent specification
MaxMods == 2         \* mods the service knows: /mods answers with 0..MaxMods of them
MaxAuthors == 1      \* authors the service knows
MaxTags == 2         \* tags the service knows
MaxComments == 2     \* comments an asset has at most
MaxVersions == 3     \* game versions /gameversions answers with at most
MaxReleases == 3     \* releases a detailed mod has at most

Callers == 1..NumCallers

\* ------------------------------------------------------------ Option<T>
\* Option<T> is a sequence of length at most one, so Some(<<>>) # None.
None == <<>>
Some(x) == <<x>>
IsSome(o) == Len(o) = 1
Unwrap(o) == o[1]

\* ------------------------------------------------------------ Result<T,E>
Ok(v) == [kind |-> "Ok", val |-> v]
\* ApiError::Http(#[from] reqwest::Error): the transport error is carried along
ErrHttp(cause) == [kind |-> "Http", val |-> <<cause>>]
\* ApiError::Unexpected(String)
ErrUnexpected(msg) == [kind |-> "Unexpected", val |-> <<msg>>]
Panic == [kind |-> "Panic", val |-> <<>>]
NoResult == [kind |-> "Pending", val |-> <<>>]

\* ------------------------------------------------------------ records
SimpleMod(i) == [mod_id |-> i]
Author(i) == [userid |-> i]

Tag(i) == [tag_id |-> i]
Comment(i) == [comment_id |-> i]
GameVersion(i, name) == [tag_id |-> i, name |-> name]
DetailedModRelease(id, tags, filename, mod_id_str, main_file) ==
    [release_id |-> id, tags |-> tags, filename |-> filename,
     mod_id_str |-> mod_id_str, main_file |-> main_file]
DetailedMod(i, releases) == [mod_id |-> i, releases |-> releases]

\* ------------------------------------------------------------ strings
\* A String is the sequence of its characters.
Digit(d) == <<"0", "1", "2", "3", "4", "5", "6", "7", "8", "9">>[d + 1]

RECURSIVE U32ToString(_)
\* u32::to_string: the decimal digits, most significant first
U32ToString(n) ==
    IF n < 10 THEN <<Digit(n)>> ELSE U32ToString(n \div 10) \o <<Digit(n % 10)>>

\* str::contains(pat) for a non-empty pattern: pat occurs at some offset
Contains(s, pat) ==
    \E i \in 1..(Len(s) - Len(pat) + 1) : SubSeq(s, i, i + Len(pat) - 1) = pat

\* Vec<String>::contains(&x): some element equals x
VecContains(v, x) == \E i \in 1..Len(v) : v[i] = x

\* format!("{}.zip", str)
FormatZip(str) == str \o <<".", "z", "i", "p">>

V_1_0_rc1 == <<"1", ".", "0", "-", "r", "c", "1">>
V_1_0 == <<"1", ".", "0">>
V_1_1_pre == <<"1", ".", "1", "-", "p", "r", "e">>
V_1_2_dev == <<"1", ".", "2", "-", "d", "e", "v">>
V_1_3_RC == <<"1", ".", "3", "-", "R", "C">>
VersionNames == {V_1_0_rc1, V_1_0, V_1_1_pre, V_1_2_dev, V_1_3_RC}

\* the first 0, 1, ..., Len(all) elements of all: the service's collection
\* as it grows, one of which answers each request
Prefixes(all) == {SubSeq(all, 1, n) : n \in 0..Len(all)}

RECURSIVE SeqsUpTo(_, _)
\* the sequences of at most n elements of S
SeqsUpTo(S, n) ==
    IF n = 0 THEN {<<>>}
    ELSE LET shorter == SeqsUpTo(S, n - 1)
         IN  shorter \cup {Append(s, x) : s \in shorter, x \in S}

\* the bodies the service may answer GET /mods and GET /authors with
ModsPayloads == Prefixes([i \in 1..MaxMods |-> SimpleMod(i)])
AuthorsPayloads == Prefixes([i \in 1..MaxAuthors |-> Author(i)])
\* ... GET /tags and GET /comments/{assetid} with
TagsPayloads == Prefixes([i \in 1..MaxTags |-> Tag(i)])
CommentsPayloads == Prefixes([i \in 1..MaxComments |-> Comment(i)])

\* the game versions named names, oldest first, told apart by their tag_id
VersionsOf(names) == [i \in 1..Len(names) |-> GameVersion(i, names[i])]
\* ... GET /gameversions with: any versions in any order
VersionsPayloads == {VersionsOf(ns) : ns \in SeqsUpTo(VersionNames, MaxVersions)}

\* the tag lists a release may carry
TagLists == {<<>>, <<V_1_0>>, <<V_1_0_rc1>>, <<V_1_1_pre, V_1_0>>}
\* the releases tagged tags[1], tags[2], ..., told apart by their release_id
ReleasesOf(tags) ==
    [i \in 1..Len(tags) |->
        DetailedModRelease(i, tags[i], None, None, <<"x", ".", "z", "i", "p">>)]
\* ... GET /mod/{alias} with: a mod with any releases in any order
DetailedPayloads ==
    {DetailedMod(1, ReleasesOf(ts)) : ts \in SeqsUpTo(TagLists, MaxReleases)}

\* what `client.get(url).send().await?` followed by `resp.json().await?`
\* can give: send fails, the body does not decode, or a decoded payload
Responses(payloads) ==
    {[kind |-> "SendErr", body |-> <<>>], [kind |-> "DecodeErr", body |-> <<>>]}
        \cup {[kind |-> "Ok", body |-> p] : p \in payloads}

VARIABLES
    enable_cache,    \* VintageStoryModDbApi.enable_cache
    mods_cache,      \* content of Mutex<Option<Vec<SimpleMod>>>
    authors_cache,   \* content of Mutex<Option<Vec<Author>>>
    mods_lock,       \* 0, or the caller holding the mods_cache mutex
    authors_lock,    \* 0, or the caller holding the authors_cache mutex
    pc,              \* where each caller is in the method it runs
    op,              \* the public method each caller runs
    arg,             \* its arguments: the mod alias, the version name, the
                     \* search query, the mod id, the SimpleMod and, for a
                     \* method of a record, the record
    local,           \* Some(collection) once a caller's request has decoded
    result,          \* what the method returned
    fetches,         \* HTTP requests the running call has sent
    mods_writer,     \* history: the caller whose running call wrote the mods
                     \* slot last (0: cleared, or that call has returned)
    before,          \* history: both slots as they were when the call began
    prev,            \* history: the call that returned last
    lastMods         \* history: Some(r) if get_mods last returned Ok(r) and no
                     \* refresh or clear of the mods slot was called since

client == <<enable_cache, mods_cache, authors_cache, mods_lock, authors_lock>>
frame == <<pc, op, arg, local, result, fetches>>
history == <<before, prev, lastMods>>
vars == <<client, frame, mods_writer, history>>

NoArg == [alias |-> <<>>, version |-> <<>>, self |-> None,
          query |-> <<>>, mod_id |-> 0, simple |-> None]

NoCall == [op |-> "none", result |-> NoResult, fetched |-> None,
           before |-> <<None, None>>, fetches |-> 0]

\* VintageStoryModDbApi::new(enable_cache), for either value of the flag
Init ==
    /\ enable_cache \in BOOLEAN
    /\ mods_cache = None
    /\ authors_cache = None
    /\ mods_lock = 0
    /\ authors_lock = 0
    /\ pc = [c \in Callers |-> "idle"]
    /\ op = [c \in Callers |-> "none"]
    /\ arg = [c \in Callers |-> NoArg]
    /\ local = [c \in Callers |-> None]
    /\ result = [c \in Callers |-> NoResult]
    /\ fetches = [c \in Callers |-> 0]
    /\ before = [c \in Callers |-> <<None, None>>]
    /\ mods_writer = 0
    /\ prev = NoCall
    /\ lastMods = None

\* the first step of each public method
Entry(o) ==
    CASE o \in {"get_mods", "get_random_mod", "search_name",
                "search_mod_id"} -> "gm_entry"
      [] o = "refresh_mods_cache" -> "rm_entry"
      [] o \in {"get_authors", "get_random_author"} -> "ga_entry"
      [] o = "refresh_authors_cache" -> "ra_entry"
      [] o \in {"clear_mods_cache", "clear_all_caches"} -> "cm_entry"
      [] o = "clear_authors_cache" -> "ca_entry"
      [] o \in {"get_mod_from_alias",
                "get_most_recent_release_from_alias_with_version"} -> "mod_entry"
      [] o = "get_detailed_mod_from_simple" -> "simple_entry"
      [] o \in {"get_mod", "get_most_recent_release",
                "get_most_recent_release_with_version"} -> "id_entry"
      [] o = "search_mods" -> "sm_entry"
      [] o \in {"get_tags", "get_random_tag"} -> "tg_entry"
      [] o \in {"get_game_versions", "get_most_recent_game_version",
                "get_most_recent_stable_game_version",
                "get_most_recent_release_from_alias",
                "get_random_game_version"} -> "gv_entry"
      [] o \in {"get_comments", "get_random_comment"} -> "cmt_entry"
      [] o = "get_filename" -> "fn_entry"

\* Where the caller of an inner method continues once that method has
\* returned Ok; the returned value is then in result.
AfterGetMods(o) ==
    CASE o = "get_random_mod" -> "rnd_mod"
      [] o = "search_name" -> "sn_filter"
      [] o = "search_mod_id" -> "sid_filter"
      [] OTHER -> "done"

AfterGetAuthors(o) ==
    CASE o = "get_random_author" -> "rnd_author"
      [] OTHER -> "done"

AfterGetModFromAlias(o) ==
    CASE o \in {"get_most_recent_release_from_alias_with_version",
                "get_most_recent_release_with_version",
                "get_most_recent_release_from_alias",
                "get_most_recent_release"} -> "rel_scan"
      [] OTHER -> "done"

AfterGetTags(o) ==
    CASE o = "get_random_tag" -> "rnd_tag"
      [] OTHER -> "done"

AfterGetGameVersions(o) ==
    CASE o = "get_most_recent_game_version" -> "gv_last"
      [] o \in {"get_most_recent_stable_game_version",
                "get_most_recent_release_from_alias",
                "get_most_recent_release"} -> "gv_stable"
      [] o = "get_random_game_version" -> "rnd_version"
      [] OTHER -> "done"

AfterGetComments(o) ==
    CASE o = "get_random_comment" -> "rnd_comment"
      [] OTHER -> "done"

\* api.rs:61-63, 174-176, 182-184: where the method goes on once
\* `mod_id.to_string()` has given the alias
AfterModIdToString(o) ==
    CASE o = "get_most_recent_release" -> "gv_entry"
      [] OTHER -> "mod_entry"

\* api.rs:178-180: get_most_recent_release_from_alias goes on with the name
\* of the version get_most_recent_stable_game_version returned
AfterGetMostRecentStableGameVersion(o) ==
    CASE o \in {"get_most_recent_release_from_alias",
                "get_most_recent_release"} -> "rel_version"
      [] OTHER -> "done"

\* a caller invokes public method o on the shared client
Invoke(c, o, a) ==
    /\ pc[c] = "idle"
    /\ pc' = [pc EXCEPT ![c] = Entry(o)]
    /\ op' = [op EXCEPT ![c] = o]
    /\ arg' = [arg EXCEPT ![c] = a]
    /\ fetches' = [fetches EXCEPT ![c] = 0]
    /\ UNCHANGED <<client, local, result, mods_writer>>

\* the method's value reaches the caller, whose frame is dropped
Complete(c) ==
    /\ pc[c] = "done"
    /\ pc' = [pc EXCEPT ![c] = "idle"]
    /\ op' = [op EXCEPT ![c] = "none"]
    /\ arg' = [arg EXCEPT ![c] = NoArg]
    /\ local' = [local EXCEPT ![c] = None]
    /\ result' = [result EXCEPT ![c] = NoResult]
    /\ fetches' = [fetches EXCEPT ![c] = 0]
    /\ mods_writer' = IF mods_writer = c THEN 0 ELSE mods_writer
    /\ UNCHANGED client

\* Invoke, with the slots remembered as they were when the call began
Call(c, o, a) ==
    /\ Invoke(c, o, a)
    /\ before' = [before EXCEPT ![c] = <<mods_cache, authors_cache>>]
    /\ UNCHANGED <<prev, lastMods>>

\* Complete, with the call joining the history
Return(c) ==
    /\ Complete(c)
    /\ prev' = [op |-> op[c], result |-> result[c], fetched |-> local[c],
                before |-> before[c], fetches |-> fetches[c]]
    /\ lastMods' =
         IF op[c] \in {"refresh_mods_cache", "clear_mods_cache", "clear_all_caches"}
         THEN None
         ELSE IF op[c] = "get_mods" /\ result[c].kind = "Ok"
              THEN Some(result[c].val)
              ELSE lastMods
    /\ before' = [before EXCEPT ![c] = <<None, None>>]

\* Invoke and Complete where no history is kept
Start(c, o, a) == Invoke(c, o, a) /\ UNCHANGED history
Finish(c) == Complete(c) /\ UNCHANGED history

\* ------------------------------------------------------------ get_mods
\* GetModsBypass, were a populated slot served whatever enable_cache says
GetModsBypass_ServeSlot(c) ==
    /\ pc[c] = "gm_entry"
    /\ ~enable_cache
    /\ IF IsSome(mods_cache)
       THEN /\ result' = [result EXCEPT ![c] = Ok(Unwrap(mods_cache))]
            /\ pc' = [pc EXCEPT ![c] = AfterGetMods(op[c])]
            /\ UNCHANGED fetches
       ELSE /\ pc' = [pc EXCEPT ![c] = "gm_wait"]
            /\ fetches' = [fetches EXCEPT ![c] = @ + 1]
            /\ UNCHANGED result
    /\ UNCHANGED <<mods_writer, client, op, arg, local, history>>

\* api.rs:36 with enable_cache false: straight to the request of api.rs:42
GetModsBypass(c) ==
    /\ pc[c] = "gm_entry"
    /\ ~enable_cache
    /\ pc' = [pc EXCEPT ![c] = "gm_wait"]
    /\ fetches' = [fetches EXCEPT ![c] = @ + 1]
    /\ UNCHANGED <<mods_writer, client, op, arg, local, result, history>>

\* api.rs:37 `self.mods_cache.lock().unwrap()`
GetModsLockRead(c) ==
    /\ pc[c] = "gm_entry"
    /\ enable_cache
    /\ mods_lock = 0
    /\ mods_lock' = c
    /\ pc' = [pc EXCEPT ![c] = "gm_read"]
    /\ UNCHANGED <<mods_writer, enable_cache, mods_cache, authors_cache, authors_lock,
                   op, arg, local, result, fetches, history>>

\* GetModsRead, were a populated slot to be passed over and fetched again
GetModsRead_IgnoreCache(c) ==
    /\ pc[c] = "gm_read"
    /\ mods_lock = c
    /\ mods_lock' = 0
    /\ pc' = [pc EXCEPT ![c] = "gm_wait"]
    /\ fetches' = [fetches EXCEPT ![c] = @ + 1]
    /\ UNCHANGED <<mods_writer, enable_cache, mods_cache, authors_cache, authors_lock,
                   op, arg, local, result, history>>

\* GetModsRead, were the guard to live on across the request after a miss
GetModsRead_KeepLock(c) ==
    /\ pc[c] = "gm_read"
    /\ mods_lock = c
    /\ IF IsSome(mods_cache)
       THEN /\ mods_lock' = 0
            /\ result' = [result EXCEPT ![c] = Ok(Unwrap(mods_cache))]
            /\ pc' = [pc EXCEPT ![c] = AfterGetMods(op[c])]
            /\ UNCHANGED fetches
       ELSE /\ mods_lock' = c
            /\ pc' = [pc EXCEPT ![c] = "gm_wait"]
            /\ fetches' = [fetches EXCEPT ![c] = @ + 1]
            /\ UNCHANGED result
    /\ UNCHANGED <<mods_writer, enable_cache, mods_cache, authors_cache, authors_lock,
                   op, arg, local, history>>

\* api.rs:37-42: a populated slot is cloned and returned; on an empty slot
\* the guard is dropped at the end of the `if let` and the request is sent
GetModsRead(c) ==
    /\ pc[c] = "gm_read"
    /\ mods_lock = c
    /\ mods_lock' = 0
    /\ IF IsSome(mods_cache)
       THEN /\ result' = [result EXCEPT ![c] = Ok(Unwrap(mods_cache))]
            /\ pc' = [pc EXCEPT ![c] = AfterGetMods(op[c])]
            /\ UNCHANGED fetches
       ELSE /\ pc' = [pc EXCEPT ![c] = "gm_wait"]
            /\ fetches' = [fetches EXCEPT ![c] = @ + 1]
            /\ UNCHANGED result
    /\ UNCHANGED <<mods_writer, enable_cache, mods_cache, authors_cache, authors_lock,
                   op, arg, local, history>>

\* api.rs:42-46: the response arrives; `?` returns Err(ApiError::Http) at once
GetModsResponse(c, r) ==
    /\ pc[c] = "gm_wait"
    /\ IF r.kind # "Ok"
       THEN /\ result' = [result EXCEPT ![c] = ErrHttp(r.kind)]
            /\ pc' = [pc EXCEPT ![c] = "done"]
            /\ UNCHANGED local
       ELSE /\ local' = [local EXCEPT ![c] = Some(r.body)]
            /\ IF enable_cache
               THEN /\ pc' = [pc EXCEPT ![c] = "gm_store"]
                    /\ UNCHANGED result
               ELSE /\ result' = [result EXCEPT ![c] = Ok(r.body)]
                    /\ pc' = [pc EXCEPT ![c] = AfterGetMods(op[c])]
    /\ UNCHANGED <<mods_writer, client, op, arg, fetches, history>>

\* api.rs:47 `self.mods_cache.lock().unwrap()`
GetModsLockWrite(c) ==
    /\ pc[c] = "gm_store"
    /\ mods_lock = 0
    /\ mods_lock' = c
    /\ pc' = [pc EXCEPT ![c] = "gm_write"]
    /\ UNCHANGED <<mods_writer, enable_cache, mods_cache, authors_cache, authors_lock,
                   op, arg, local, result, fetches, history>>

\* GetModsWrite, were it to leave a slot another caller has filled meanwhile
GetModsWrite_FirstWins(c) ==
    /\ pc[c] = "gm_write"
    /\ mods_lock = c
    /\ mods_cache' = IF IsSome(mods_cache) THEN mods_cache ELSE Some(Unwrap(local[c]))
    /\ mods_lock' = 0
    /\ mods_writer' = c
    /\ result' = [result EXCEPT ![c] = Ok(Unwrap(local[c]))]
    /\ pc' = [pc EXCEPT ![c] = AfterGetMods(op[c])]
    /\ UNCHANGED <<enable_cache, authors_cache, authors_lock,
                   op, arg, local, fetches, history>>

\* GetModsWrite, were it to return the collection without storing it
GetModsWrite_NoStore(c) ==
    /\ pc[c] = "gm_write"
    /\ mods_lock = c
    /\ mods_cache' = mods_cache
    /\ mods_lock' = 0
    /\ mods_writer' = c
    /\ result' = [result EXCEPT ![c] = Ok(Unwrap(local[c]))]
    /\ pc' = [pc EXCEPT ![c] = AfterGetMods(op[c])]
    /\ UNCHANGED <<enable_cache, authors_cache, authors_lock,
                   op, arg, local, fetches, history>>

\* api.rs:47-49 `* = Some(mods.clone()); Ok(mods)`
GetModsWrite(c) ==
    /\ pc[c] = "gm_write"
    /\ mods_lock = c
    /\ mods_cache' = Some(Unwrap(local[c]))
    /\ mods_lock' = 0
    /\ mods_writer' = c
    /\ result' = [result EXCEPT ![c] = Ok(Unwrap(local[c]))]
    /\ pc' = [pc EXCEPT ![c] = AfterGetMods(op[c])]
    /\ UNCHANGED <<enable_cache, authors_cache, authors_lock,
                   op, arg, local, fetches, history>>

\* -------------------------------------------------- refresh_mods_cache
\* api.rs:54: the request is sent whatever enable_cache is
RefreshModsSend(c) ==
    /\ pc[c] = "rm_entry"
    /\ pc' = [pc EXCEPT ![c] = "rm_wait"]
    /\ fetches' = [fetches EXCEPT ![c] = @ + 1]
    /\ UNCHANGED <<mods_writer, client, op, arg, local, result, history>>

\* RefreshModsResponse, were a failed refresh to empty the slot
RefreshModsResponse_DropOnError(c, r) ==
    /\ pc[c] = "rm_wait"
    /\ IF r.kind # "Ok"
       THEN /\ result' = [result EXCEPT ![c] = ErrHttp(r.kind)]
            /\ pc' = [pc EXCEPT ![c] = "done"]
            /\ mods_cache' = None
            /\ UNCHANGED local
       ELSE /\ local' = [local EXCEPT ![c] = Some(r.body)]
            /\ pc' = [pc EXCEPT ![c] = "rm_store"]
            /\ UNCHANGED <<result, mods_cache>>
    /\ UNCHANGED <<mods_writer, enable_cache, authors_cache, mods_lock,
                   authors_lock, op, arg, fetches, history>>

\* api.rs:54-55
RefreshModsResponse(c, r) ==
    /\ pc[c] = "rm_wait"
    /\ IF r.kind # "Ok"
       THEN /\ result' = [result EXCEPT ![c] = ErrHttp(r.kind)]
            /\ pc' = [pc EXCEPT ![c] = "done"]
            /\ UNCHANGED local
       ELSE /\ local' = [local EXCEPT ![c] = Some(r.body)]
            /\ pc' = [pc EXCEPT ![c] = "rm_store"]
            /\ UNCHANGED result
    /\ UNCHANGED <<mods_writer, client, op, arg, fetches, history>>

\* api.rs:56 `self.mods_cache.lock().unwrap()`
RefreshModsLock(c) ==
    /\ pc[c] = "rm_store"
    /\ mods_lock = 0
    /\ mods_lock' = c
    /\ pc' = [pc EXCEPT ![c] = "rm_write"]
    /\ UNCHANGED <<mods_writer, enable_cache, mods_cache, authors_cache, authors_lock,
                   op, arg, local, result, fetches, history>>

\* RefreshModsWrite, were it to fill only an empty slot
RefreshModsWrite_KeepOld(c) ==
    /\ pc[c] = "rm_write"
    /\ mods_lock = c
    /\ mods_cache' = IF IsSome(mods_cache) THEN mods_cache ELSE Some(Unwrap(local[c]))
    /\ mods_lock' = 0
    /\ mods_writer' = c
    /\ result' = [result EXCEPT ![c] = Ok(<<>>)]
    /\ pc' = [pc EXCEPT ![c] = "done"]
    /\ UNCHANGED <<enable_cache, authors_cache, authors_lock,
                   op, arg, local, fetches, history>>

\* api.rs:56-57 `* = Some(mods_response.mods); Ok(())`
RefreshModsWrite(c) ==
    /\ pc[c] = "rm_write"
    /\ mods_lock = c
    /\ mods_cache' = Some(Unwrap(local[c]))
    /\ mods_lock' = 0
    /\ mods_writer' = c
    /\ result' = [result EXCEPT ![c] = Ok(<<>>)]
    /\ pc' = [pc EXCEPT ![c] = "done"]
    /\ UNCHANGED <<enable_cache, authors_cache, authors_lock,
                   op, arg, local, fetches, history>>

\* ------------------------------------------------------------ get_authors
\* api.rs:116 with enable_cache false: straight to the request of api.rs:123
GetAuthorsBypass(c) ==
    /\ pc[c] = "ga_entry"
    /\ ~enable_cache
    /\ pc' = [pc EXCEPT ![c] = "ga_wait"]
    /\ fetches' = [fetches EXCEPT ![c] = @ + 1]
    /\ UNCHANGED <<mods_writer, client, op, arg, local, result, history>>

\* api.rs:117 `self.authors_cache.lock().unwrap()`
GetAuthorsLockRead(c) ==
    /\ pc[c] = "ga_entry"
    /\ enable_cache
    /\ authors_lock = 0
    /\ authors_lock' = c
    /\ pc' = [pc EXCEPT ![c] = "ga_read"]
    /\ UNCHANGED <<mods_writer, enable_cache, mods_cache, authors_cache, mods_lock,
                   op, arg, local, result, fetches, history>>

\* api.rs:117-123
GetAuthorsRead(c) ==
    /\ pc[c] = "ga_read"
    /\ authors_lock = c
    /\ authors_lock' = 0
    /\ IF IsSome(authors_cache)
       THEN /\ result' = [result EXCEPT ![c] = Ok(Unwrap(authors_cache))]
            /\ pc' = [pc EXCEPT ![c] = AfterGetAuthors(op[c])]
            /\ UNCHANGED fetches
       ELSE /\ pc' = [pc EXCEPT ![c] = "ga_wait"]
            /\ fetches' = [fetches EXCEPT ![c] = @ + 1]
            /\ UNCHANGED result
    /\ UNCHANGED <<mods_writer, enable_cache, mods_cache, authors_cache, mods_lock,
                   op, arg, local, history>>

\* api.rs:123-127
GetAuthorsResponse(c, r) ==
    /\ pc[c] = "ga_wait"
    /\ IF r.kind # "Ok"
       THEN /\ result' = [result EXCEPT ![c] = ErrHttp(r.kind)]
            /\ pc' = [pc EXCEPT ![c] = "done"]
            /\ UNCHANGED local
       ELSE /\ local' = [local EXCEPT ![c] = Some(r.body)]
            /\ IF enable_cache
               THEN /\ pc' = [pc EXCEPT ![c] = "ga_store"]
                    /\ UNCHANGED result
               ELSE /\ result' = [result EXCEPT ![c] = Ok(r.body)]
                    /\ pc' = [pc EXCEPT ![c] = AfterGetAuthors(op[c])]
    /\ UNCHANGED <<mods_writer, client, op, arg, fetches, history>>

\* api.rs:128 `self.authors_cache.lock().unwrap()`
GetAuthorsLockWrite(c) ==
    /\ pc[c] = "ga_store"
    /\ authors_lock = 0
    /\ authors_lock' = c
    /\ pc' = [pc EXCEPT ![c] = "ga_write"]
    /\ UNCHANGED <<mods_writer, enable_cache, mods_cache, authors_cache, mods_lock,
                   op, arg, local, result, fetches, history>>

\* api.rs:128-130 `* = Some(authors.clone()); Ok(authors)`
GetAuthorsWrite(c) ==
    /\ pc[c] = "ga_write"
    /\ authors_lock = c
    /\ authors_cache' = Some(Unwrap(local[c]))
    /\ authors_lock' = 0
    /\ result' = [result EXCEPT ![c] = Ok(Unwrap(local[c]))]
    /\ pc' = [pc EXCEPT ![c] = AfterGetAuthors(op[c])]
    /\ UNCHANGED <<mods_writer, enable_cache, mods_cache, mods_lock,
                   op, arg, local, fetches, history>>

\* ----------------------------------------------- refresh_authors_cache
\* api.rs:135-136
RefreshAuthorsSend(c) ==
    /\ pc[c] = "ra_entry"
    /\ pc' = [pc EXCEPT ![c] = "ra_wait"]
    /\ fetches' = [fetches EXCEPT ![c] = @ + 1]
    /\ UNCHANGED <<mods_writer, client, op, arg, local, result, history>>

\* api.rs:136-137
RefreshAuthorsResponse(c, r) ==
    /\ pc[c] = "ra_wait"
    /\ IF r.kind # "Ok"
       THEN /\ result' = [result EXCEPT ![c] = ErrHttp(r.kind)]
            /\ pc' = [pc EXCEPT ![c] = "done"]
            /\ UNCHANGED local
       ELSE /\ local' = [local EXCEPT ![c] = Some(r.body)]
            /\ pc' = [pc EXCEPT ![c] = "ra_store"]
            /\ UNCHANGED result
    /\ UNCHANGED <<mods_writer, client, op, arg, fetches, history>>

\* api.rs:138 `self.authors_cache.lock().unwrap()`
RefreshAuthorsLock(c) ==
    /\ pc[c] = "ra_store"
    /\ authors_lock = 0
    /\ authors_lock' = c
    /\ pc' = [pc EXCEPT ![c] = "ra_write"]
    /\ UNCHANGED <<mods_writer, enable_cache, mods_cache, authors_cache, mods_lock,
                   op, arg, local, result, fetches, history>>

\* api.rs:138-139 `* = Some(authors_response.authors); Ok(())`
RefreshAuthorsWrite(c) ==
    /\ pc[c] = "ra_write"
    /\ authors_lock = c
    /\ authors_cache' = Some(Unwrap(local[c]))
    /\ authors_lock' = 0
    /\ result' = [result EXCEPT ![c] = Ok(<<>>)]
    /\ pc' = [pc EXCEPT ![c] = "done"]
    /\ UNCHANGED <<mods_writer, enable_cache, mods_cache, mods_lock,
                   op, arg, local, fetches, history>>

\* ------------------------------------------------------------ clear_*
\* api.rs:160 `self.mods_cache.lock().unwrap()`
ClearModsLock(c) ==
    /\ pc[c] = "cm_entry"
    /\ mods_lock = 0
    /\ mods_lock' = c
    /\ pc' = [pc EXCEPT ![c] = "cm_take"]
    /\ UNCHANGED <<mods_writer, enable_cache, mods_cache, authors_cache, authors_lock,
                   op, arg, local, result, fetches, history>>

\* ClearModsTake, were it to read the slot without taking its content
ClearModsTake_Keep(c) ==
    /\ pc[c] = "cm_take"
    /\ mods_lock = c
    /\ mods_cache' = mods_cache
    /\ mods_lock' = 0
    /\ mods_writer' = 0
    /\ IF op[c] = "clear_all_caches"
       THEN /\ pc' = [pc EXCEPT ![c] = "ca_entry"]
            /\ UNCHANGED result
       ELSE /\ pc' = [pc EXCEPT ![c] = "done"]
            /\ result' = [result EXCEPT ![c] = Ok(<<>>)]
    /\ UNCHANGED <<enable_cache, authors_cache, authors_lock,
                   op, arg, local, fetches, history>>

\* api.rs:160 `.take()`; clear_all_caches goes on to api.rs:171
ClearModsTake(c) ==
    /\ pc[c] = "cm_take"
    /\ mods_lock = c
    /\ mods_cache' = None
    /\ mods_lock' = 0
    /\ mods_writer' = 0
    /\ IF op[c] = "clear_all_caches"
       THEN /\ pc' = [pc EXCEPT ![c] = "ca_entry"]
            /\ UNCHANGED result
       ELSE /\ pc' = [pc EXCEPT ![c] = "done"]
            /\ result' = [result EXCEPT ![c] = Ok(<<>>)]
    /\ UNCHANGED <<enable_cache, authors_cache, authors_lock,
                   op, arg, local, fetches, history>>

\* api.rs:165 `self.authors_cache.lock().unwrap()`
ClearAuthorsLock(c) ==
    /\ pc[c] = "ca_entry"
    /\ authors_lock = 0
    /\ authors_lock' = c
    /\ pc' = [pc EXCEPT ![c] = "ca_take"]
    /\ UNCHANGED <<mods_writer, enable_cache, mods_cache, authors_cache, mods_lock,
                   op, arg, local, result, fetches, history>>

\* api.rs:165 `.take()`
ClearAuthorsTake(c) ==
    /\ pc[c] = "ca_take"
    /\ authors_lock = c
    /\ authors_cache' = None
    /\ authors_lock' = 0
    /\ pc' = [pc EXCEPT ![c] = "done"]
    /\ result' = [result EXCEPT ![c] = Ok(<<>>)]
    /\ UNCHANGED <<mods_writer, enable_cache, mods_cache, mods_lock,
                   op, arg, local, fetches, history>>

\* ------------------------------------------------------------ live endpoints
\* What every step that touches neither the client nor the history leaves.
\* A method that binds the value an inner method returned (`let versions =
\* self.get_game_versions().await?`) keeps it in local.
quiet == <<mods_writer, client, history>>

\* api.rs:67-68 get_mod_from_alias: GET /mod/{alias}
GetModFromAliasSend(c) ==
    /\ pc[c] = "mod_entry"
    /\ pc' = [pc EXCEPT ![c] = "mod_wait"]
    /\ fetches' = [fetches EXCEPT ![c] = @ + 1]
    /\ UNCHANGED <<quiet, op, arg, local, result>>

\* api.rs:68-70
GetModFromAliasResponse(c, r) ==
    /\ pc[c] = "mod_wait"
    /\ IF r.kind # "Ok"
       THEN /\ result' = [result EXCEPT ![c] = ErrHttp(r.kind)]
            /\ pc' = [pc EXCEPT ![c] = "done"]
       ELSE /\ result' = [result EXCEPT ![c] = Ok(r.body)]
            /\ pc' = [pc EXCEPT ![c] = AfterGetModFromAlias(op[c])]
    /\ UNCHANGED <<quiet, op, arg, local, fetches>>

\* api.rs:106-107 get_tags: GET /tags
GetTagsSend(c) ==
    /\ pc[c] = "tg_entry"
    /\ pc' = [pc EXCEPT ![c] = "tg_wait"]
    /\ fetches' = [fetches EXCEPT ![c] = @ + 1]
    /\ UNCHANGED <<quiet, op, arg, local, result>>

\* api.rs:107-109
GetTagsResponse(c, r) ==
    /\ pc[c] = "tg_wait"
    /\ IF r.kind # "Ok"
       THEN /\ result' = [result EXCEPT ![c] = ErrHttp(r.kind)]
            /\ pc' = [pc EXCEPT ![c] = "done"]
       ELSE /\ result' = [result EXCEPT ![c] = Ok(r.body)]
            /\ pc' = [pc EXCEPT ![c] = AfterGetTags(op[c])]
    /\ UNCHANGED <<quiet, op, arg, local, fetches>>

\* api.rs:144-145 get_game_versions: GET /gameversions
GetGameVersionsSend(c) ==
    /\ pc[c] = "gv_entry"
    /\ pc' = [pc EXCEPT ![c] = "gv_wait"]
    /\ fetches' = [fetches EXCEPT ![c] = @ + 1]
    /\ UNCHANGED <<quiet, op, arg, local, result>>

\* api.rs:145-147
GetGameVersionsResponse(c, r) ==
    /\ pc[c] = "gv_wait"
    /\ IF r.kind # "Ok"
       THEN /\ result' = [result EXCEPT ![c] = ErrHttp(r.kind)]
            /\ pc' = [pc EXCEPT ![c] = "done"]
       ELSE /\ result' = [result EXCEPT ![c] = Ok(r.body)]
            /\ pc' = [pc EXCEPT ![c] = AfterGetGameVersions(op[c])]
    /\ UNCHANGED <<quiet, op, arg, local, fetches>>

\* api.rs:152-153 get_comments: GET /comments/{asset_id}
GetCommentsSend(c) ==
    /\ pc[c] = "cmt_entry"
    /\ pc' = [pc EXCEPT ![c] = "cmt_wait"]
    /\ fetches' = [fetches EXCEPT ![c] = @ + 1]
    /\ UNCHANGED <<quiet, op, arg, local, result>>

\* api.rs:153-155
GetCommentsResponse(c, r) ==
    /\ pc[c] = "cmt_wait"
    /\ IF r.kind # "Ok"
       THEN /\ result' = [result EXCEPT ![c] = ErrHttp(r.kind)]
            /\ pc' = [pc EXCEPT ![c] = "done"]
       ELSE /\ result' = [result EXCEPT ![c] = Ok(r.body)]
            /\ pc' = [pc EXCEPT ![c] = AfterGetComments(op[c])]
    /\ UNCHANGED <<quiet, op, arg, local, fetches>>

\* ------------------------------------------------ most recent game version
\* a call that panics returns nothing: its caller never gets to Return
Raise(c) ==
    /\ result' = [result EXCEPT ![c] = Panic]
    /\ pc' = [pc EXCEPT ![c] = "panicked"]

\* api.rs:189 `versions.last().unwrap().clone()`
MostRecentGameVersion(c) ==
    /\ pc[c] = "gv_last"
    /\ LET versions == result[c].val
       IN  IF Len(versions) = 0
           THEN Raise(c)
           ELSE /\ result' = [result EXCEPT ![c] = Ok(versions[Len(versions)])]
                /\ pc' = [pc EXCEPT ![c] = "done"]
    /\ local' = [local EXCEPT ![c] = Some(result[c].val)]
    /\ UNCHANGED <<quiet, op, arg, fetches>>

\* IsPreRelease, were the loop condition to forget "dev"
IsPreRelease_NoDev(name) ==
    \/ Contains(name, <<"p", "r", "e">>)
    \/ Contains(name, <<"r", "c">>)
    \/ FALSE

\* api.rs:195: the condition of the while loop
IsPreRelease(name) ==
    \/ Contains(name, <<"p", "r", "e">>)
    \/ Contains(name, <<"r", "c">>)
    \/ Contains(name, <<"d", "e", "v">>)

RECURSIVE StableScan_Clamped(_, _)
\* StableScan, were the loop to stop at the oldest version and settle for it
StableScan_Clamped(versions, dif) ==
    IF Len(versions) = 0 THEN 0
    ELSE IF dif >= Len(versions) THEN Len(versions)
    ELSE IF IsPreRelease(versions[Len(versions) - dif + 1].name)
         THEN StableScan_Clamped(versions, dif + 1)
         ELSE dif

RECURSIVE StableScan(_, _)
\* api.rs:194-197: the value of dif when the loop ends, or 0 when
\* `versions[versions.len() - dif]` is evaluated with dif > versions.len():
\* the subtraction overflows usize (a panic in a debug build) or wraps to an
\* index past the end (a panic in a release build).  The index
\* versions.len() - dif counts from 0, Len(versions) - dif + 1 from 1.
StableScan(versions, dif) ==
    IF dif > Len(versions) THEN 0
    ELSE IF IsPreRelease(versions[Len(versions) - dif + 1].name)
         THEN StableScan(versions, dif + 1)
         ELSE dif

\* api.rs:194-199
MostRecentStableGameVersion(c) ==
    /\ pc[c] = "gv_stable"
    /\ LET versions == result[c].val
           dif == StableScan(versions, 1)
       IN  IF dif = 0
           THEN Raise(c)
           ELSE /\ result' = [result EXCEPT ![c] =
                                 Ok(versions[Len(versions) - dif + 1])]
                /\ pc' = [pc EXCEPT ![c] =
                             AfterGetMostRecentStableGameVersion(op[c])]
    /\ local' = [local EXCEPT ![c] = Some(result[c].val)]
    /\ UNCHANGED <<quiet, op, arg, fetches>>

\* ------------------------------------------------ most recent release
RECURSIVE NextTagged(_, _, _)
\* api.rs:210-215: the index of the release the `while let` breaks at, from
\* i on, or 0 when the iterator runs out
NextTagged(releases, version, i) ==
    IF i > Len(releases) THEN 0
    ELSE IF VecContains(releases[i].tags, version) THEN i
         ELSE NextTagged(releases, version, i + 1)

\* ReleaseIndex, were the loop to go on after a match and keep the last one
ReleaseIndex_NoBreak(releases, version) ==
    LET tagged == {i \in 1..Len(releases) : VecContains(releases[i].tags, version)}
    IN  IF tagged = {} THEN 1 ELSE CHOOSE i \in tagged : \A j \in tagged : j <= i

\* api.rs:204-217: the index of the release returned, for a non-empty list
ReleaseIndex(releases, version) ==
    IF VecContains(releases[1].tags, version)
    THEN 1
    ELSE LET j == NextTagged(releases, version, 2)
         IN  IF j = 0 THEN 1 ELSE j

\* api.rs:204-217; `iter.next().unwrap()` panics on a mod without releases
MostRecentReleaseWithVersion(c) ==
    /\ pc[c] = "rel_scan"
    /\ LET releases == result[c].val.releases
       IN  IF Len(releases) = 0
           THEN Raise(c)
           ELSE /\ result' = [result EXCEPT ![c] =
                      Ok(releases[ReleaseIndex(releases, arg[c].version)])]
                /\ pc' = [pc EXCEPT ![c] = "done"]
    /\ local' = [local EXCEPT ![c] = Some(result[c].val)]
    /\ UNCHANGED <<quiet, op, arg, fetches>>

\* GetFilename, were mod_id_str to come before filename
GetFilename_ModIdFirst(self) ==
    IF IsSome(self.mod_id_str)
    THEN FormatZip(Unwrap(self.mod_id_str))
    ELSE IF IsSome(self.filename)
         THEN Unwrap(self.filename)
         ELSE self.main_file

\* ------------------------------------------------ get_filename
\* models.rs:210
GetFilename(self) ==
    IF IsSome(self.filename)
    THEN Unwrap(self.filename)
    ELSE IF IsSome(self.mod_id_str)
         THEN FormatZip(Unwrap(self.mod_id_str))
         ELSE self.main_file

\* models.rs:209-211 called on the release in arg
CallGetFilename(c) ==
    /\ pc[c] = "fn_entry"
    /\ result' = [result EXCEPT ![c] = Ok(GetFilename(Unwrap(arg[c].self)))]
    /\ pc' = [pc EXCEPT ![c] = "done"]
    /\ UNCHANGED <<quiet, op, arg, local, fetches>>

\* GetRandomModChoose, were it to index the slice without looking at its length
GetRandomModChoose_Unchecked(c) ==
    /\ pc[c] = "rnd_mod"
    /\ LET mods == result[c].val
       IN  /\ local' = [local EXCEPT ![c] = Some(mods)]
           /\ IF Len(mods) = 0
              THEN /\ Raise(c)
                   /\ UNCHANGED arg
              ELSE /\ \E i \in 1..Len(mods) :
                        arg' = [arg EXCEPT ![c].alias = U32ToString(mods[i].mod_id)]
                   /\ pc' = [pc EXCEPT ![c] = "mod_entry"]
                   /\ UNCHANGED result
    /\ UNCHANGED <<quiet, op, fetches>>

\* ------------------------------------------------ random selection
\* api.rs:255-258: `mods.choose(&mut rng)` is None on an empty slice and
\* any element otherwise; the chosen mod is then fetched by get_mod, which
\* is get_mod_from_alias(mod_id.to_string()) (api.rs:61-63)
GetRandomModChoose(c) ==
    /\ pc[c] = "rnd_mod"
    /\ LET mods == result[c].val
       IN  /\ local' = [local EXCEPT ![c] = Some(mods)]
           /\ IF Len(mods) = 0
              THEN /\ result' = [result EXCEPT ![c] =
                                    ErrUnexpected("No mods found")]
                   /\ pc' = [pc EXCEPT ![c] = "done"]
                   /\ UNCHANGED arg
              ELSE /\ \E i \in 1..Len(mods) :
                        arg' = [arg EXCEPT ![c].alias = U32ToString(mods[i].mod_id)]
                   /\ pc' = [pc EXCEPT ![c] = "mod_entry"]
                   /\ UNCHANGED result
    /\ UNCHANGED <<quiet, op, fetches>>

\* api.rs:263-266
GetRandomTagChoose(c) ==
    /\ pc[c] = "rnd_tag"
    /\ LET tags == result[c].val
       IN  /\ local' = [local EXCEPT ![c] = Some(tags)]
           /\ IF Len(tags) = 0
              THEN result' = [result EXCEPT ![c] = ErrUnexpected("No tags found")]
              ELSE \E i \in 1..Len(tags) :
                      result' = [result EXCEPT ![c] = Ok(tags[i])]
    /\ pc' = [pc EXCEPT ![c] = "done"]
    /\ UNCHANGED <<quiet, op, arg, fetches>>

\* api.rs:271-274
GetRandomAuthorChoose(c) ==
    /\ pc[c] = "rnd_author"
    /\ LET authors == result[c].val
       IN  /\ local' = [local EXCEPT ![c] = Some(authors)]
           /\ IF Len(authors) = 0
              THEN result' = [result EXCEPT ![c] =
                                 ErrUnexpected("No authors found")]
              ELSE \E i \in 1..Len(authors) :
                      result' = [result EXCEPT ![c] = Ok(authors[i])]
    /\ pc' = [pc EXCEPT ![c] = "done"]
    /\ UNCHANGED <<quiet, op, arg, fetches>>

\* api.rs:279-282
GetRandomGameVersionChoose(c) ==
    /\ pc[c] = "rnd_version"
    /\ LET versions == result[c].val
       IN  /\ local' = [local EXCEPT ![c] = Some(versions)]
           /\ IF Len(versions) = 0
              THEN result' = [result EXCEPT ![c] =
                                 ErrUnexpected("No versions found")]
              ELSE \E i \in 1..Len(versions) :
                      result' = [result EXCEPT ![c] = Ok(versions[i])]
    /\ pc' = [pc EXCEPT ![c] = "done"]
    /\ UNCHANGED <<quiet, op, arg, fetches>>

\* api.rs:287-292
GetRandomCommentChoose(c) ==
    /\ pc[c] = "rnd_comment"
    /\ LET comments == result[c].val
       IN  /\ local' = [local EXCEPT ![c] = Some(comments)]
           /\ IF Len(comments) = 0
              THEN result' = [result EXCEPT ![c] = Ok(None)]
              ELSE \E i \in 1..Len(comments) :
                      result' = [result EXCEPT ![c] = Ok(Some(comments[i]))]
    /\ pc' = [pc EXCEPT ![c] = "done"]
    /\ UNCHANGED <<quiet, op, arg, fetches>>

\* ------------------------------------------------ lookups by mod id
\* api.rs:75 get_detailed_mod_from_simple: `self.get_mod(simple.mod_id)`
GetDetailedModFromSimple(c) ==
    /\ pc[c] = "simple_entry"
    /\ arg' = [arg EXCEPT ![c].mod_id = Unwrap(arg[c].simple).mod_id]
    /\ pc' = [pc EXCEPT ![c] = "id_entry"]
    /\ UNCHANGED <<quiet, op, local, result, fetches>>

\* api.rs:62, 175, 183: `mod_id.to_string()` is the alias the call goes on with
ModIdToString(c) ==
    /\ pc[c] = "id_entry"
    /\ arg' = [arg EXCEPT ![c].alias = U32ToString(arg[c].mod_id)]
    /\ pc' = [pc EXCEPT ![c] = AfterModIdToString(op[c])]
    /\ UNCHANGED <<quiet, op, local, result, fetches>>

\* api.rs:179: `self.get_most_recent_stable_game_version().await?.name` is
\* the version the release lookup goes on with
ResolveVersion(c) ==
    /\ pc[c] = "rel_version"
    /\ arg' = [arg EXCEPT ![c].version = result[c].val.name]
    /\ pc' = [pc EXCEPT ![c] = "mod_entry"]
    /\ UNCHANGED <<quiet, op, local, result, fetches>>

\* ------------------------------------------------------------ search
\* api.rs:82-83 search_mods: GET /mods?text={query}&sortby=..&sortdir=..;
\* the query, the order and the direction are part of the URL only
SearchModsSend(c) ==
    /\ pc[c] = "sm_entry"
    /\ pc' = [pc EXCEPT ![c] = "sm_wait"]
    /\ fetches' = [fetches EXCEPT ![c] = @ + 1]
    /\ UNCHANGED <<quiet, op, arg, local, result>>

\* SearchModsResponse, were the result of the search kept as the mods snapshot
SearchModsResponse_Caches(c, r) ==
    /\ pc[c] = "sm_wait"
    /\ IF r.kind # "Ok"
       THEN /\ result' = [result EXCEPT ![c] = ErrHttp(r.kind)]
            /\ UNCHANGED mods_cache
       ELSE /\ result' = [result EXCEPT ![c] = Ok(r.body)]
            /\ mods_cache' = Some(r.body)
    /\ pc' = [pc EXCEPT ![c] = "done"]
    /\ UNCHANGED <<mods_writer, enable_cache, authors_cache, mods_lock, authors_lock,
                   op, arg, local, fetches, history>>

\* api.rs:83-86
SearchModsResponse(c, r) ==
    /\ pc[c] = "sm_wait"
    /\ IF r.kind # "Ok"
       THEN result' = [result EXCEPT ![c] = ErrHttp(r.kind)]
       ELSE result' = [result EXCEPT ![c] = Ok(r.body)]
    /\ pc' = [pc EXCEPT ![c] = "done"]
    /\ UNCHANGED <<quiet, op, arg, local, fetches>>

\* char::is_ascii_whitespace: U+0020 SPACE, U+0009 TAB, U+000A LF,
\* U+000C FF, U+000D CR
IsAsciiWhitespace(ch) == ch \in {" ", "\t", "\n", "\f", "\r"}

\* char::is_ascii_punctuation: U+0021..U+002F, U+003A..U+0040,
\* U+005B..U+0060, U+007B..U+007E.  The grave accent, which a string of
\* this language cannot hold, is written by its code point.
IsAsciiPunctuation(ch) ==
    ch \in {"!", "\"", "#", "$", "%", "&", "'", "(", ")", "*", "+", ",", "-",
            ".", "/", ":", ";", "<", "=", ">", "?", "@", "[", "\\", "]", "^",
            "_", "U+0060", "{", "|", "}", "~"}

\* api.rs:93 `s.replace(|c| char::is_ascii_whitespace(&c) ||
\* char::is_ascii_punctuation(&c), "")`: every such character is dropped
StripSeparators(s) ==
    SelectSeq(s, LAMBDA ch : ~(IsAsciiWhitespace(ch) \/ IsAsciiPunctuation(ch)))

AsciiUppercase ==
    <<"A", "B", "C", "D", "E", "F", "G", "H", "I", "J", "K", "L", "M",
      "N", "O", "P", "Q", "R", "S", "T", "U", "V", "W", "X", "Y", "Z">>
AsciiLowercase ==
    <<"a", "b", "c", "d", "e", "f", "g", "h", "i", "j", "k", "l", "m",
      "n", "o", "p", "q", "r", "s", "t", "u", "v", "w", "x", "y", "z">>

\* char::to_ascii_lowercase: 'A'..'Z' to 'a'..'z', any other character kept
CharToAsciiLowercase(ch) ==
    IF \E i \in 1..26 : AsciiUppercase[i] = ch
    THEN AsciiLowercase[CHOOSE i \in 1..26 : AsciiUppercase[i] = ch]
    ELSE ch

\* str::to_ascii_lowercase
ToAsciiLowercase(s) == [i \in 1..Len(s) |-> CharToAsciiLowercase(s[i])]

\* str::eq_ignore_ascii_case: same length, and the same characters once
\* both are in ASCII lower case
EqIgnoreAsciiCase(a, b) ==
    /\ Len(a) = Len(b)
    /\ \A i \in 1..Len(a) : CharToAsciiLowercase(a[i]) = CharToAsciiLowercase(b[i])

\* NameMatches, were the comparison to tell upper case from lower case
NameMatches_CaseSensitive(m, query) ==
    StripSeparators(m.name) = StripSeparators(query)

\* api.rs:93: the closure of the filter of search_name
NameMatches(m, query) ==
    EqIgnoreAsciiCase(StripSeparators(m.name), StripSeparators(query))

\* api.rs:93 `mods.into_iter().filter(..).collect()`
SearchNameFilter(c) ==
    /\ pc[c] = "sn_filter"
    /\ LET mods == result[c].val
       IN  /\ local' = [local EXCEPT ![c] = Some(mods)]
           /\ result' = [result EXCEPT ![c] =
                 Ok(SelectSeq(mods, LAMBDA m : NameMatches(m, arg[c].query)))]
    /\ pc' = [pc EXCEPT ![c] = "done"]
    /\ UNCHANGED <<quiet, op, arg, fetches>>

\* api.rs:100: the closure of the filter of search_mod_id
ModIdMatches(m, query) ==
    VecContains(m.mod_id_strs, ToAsciiLowercase(StripSeparators(query)))

\* api.rs:100 `mods.into_iter().filter(..).collect()`
SearchModIdFilter(c) ==
    /\ pc[c] = "sid_filter"
    /\ LET mods == result[c].val
       IN  /\ local' = [local EXCEPT ![c] = Some(mods)]
           /\ result' = [result EXCEPT ![c] =
                 Ok(SelectSeq(mods, LAMBDA m : ModIdMatches(m, arg[c].query)))]
    /\ pc' = [pc EXCEPT ![c] = "done"]
    /\ UNCHANGED <<quiet, op, arg, fetches>>

\* ------------------------------------------------------------ specifications
CacheOps == {"get_mods", "refresh_mods_cache", "get_authors",
             "refresh_authors_cache", "clear_mods_cache", "clear_authors_cache",
             "clear_all_caches"}

\* a step of caller c inside a method of the cache layer that waits for no
\* response
CacheStep(c) ==
    \/ GetModsBypass(c) \/ GetModsLockRead(c) \/ GetModsRead(c)
    \/ GetModsLockWrite(c) \/ GetModsWrite(c)
    \/ RefreshModsSend(c) \/ RefreshModsLock(c) \/ RefreshModsWrite(c)
    \/ GetAuthorsBypass(c) \/ GetAuthorsLockRead(c) \/ GetAuthorsRead(c)
    \/ GetAuthorsLockWrite(c) \/ GetAuthorsWrite(c)
    \/ RefreshAuthorsSend(c) \/ RefreshAuthorsLock(c) \/ RefreshAuthorsWrite(c)
    \/ ClearModsLock(c) \/ ClearModsTake(c)
    \/ ClearAuthorsLock(c) \/ ClearAuthorsTake(c)

\* the service answers a request of the cache layer with one of the bodies
CacheResponse(c, mods, authors) ==
    \/ \E r \in Responses(mods) : GetModsResponse(c, r)
    \/ \E r \in Responses(mods) : RefreshModsResponse(c, r)
    \/ \E r \in Responses(authors) : GetAuthorsResponse(c, r)
    \/ \E r \in Responses(authors) : RefreshAuthorsResponse(c, r)

\* The cache layer never looks inside a collection, so where only the
\* interleaving of the callers matters the service answers with one of two
\* mods collections and with one authors collection.
RaceModsPayloads == {<<>>, <<SimpleMod(1)>>}
RaceAuthorsPayloads == {<<Author(1)>>}

\* callers share one client and interleave at every step
Next ==
    \E c \in Callers :
        \/ \E o \in CacheOps : Start(c, o, NoArg)
        \/ CacheStep(c)
        \/ CacheResponse(c, RaceModsPayloads, RaceAuthorsPayloads)
        \/ Finish(c)

Spec == Init /\ [][Next]_vars

\* one caller: each call returns before the next begins
SeqNext ==
    \/ \E o \in CacheOps : Call(1, o, NoArg)
    \/ CacheStep(1)
    \/ CacheResponse(1, ModsPayloads, AuthorsPayloads)
    \/ Return(1)

SeqSpec == Init /\ [][SeqNext]_vars

\* ---- the game-version methods, one caller, any answer to /gameversions
VersionOps == {"get_game_versions", "get_most_recent_game_version",
               "get_most_recent_stable_game_version"}

VersionNext ==
    \/ \E o \in VersionOps : Start(1, o, NoArg)
    \/ GetGameVersionsSend(1)
    \/ \E r \in Responses(VersionsPayloads) : GetGameVersionsResponse(1, r)
    \/ MostRecentGameVersion(1)
    \/ MostRecentStableGameVersion(1)
    \/ Finish(1)

VersionSpec == Init /\ [][VersionNext]_vars

\* ---- the release lookup, one caller, any answer to /mod/{alias}
ReleaseOps == {"get_mod_from_alias",
               "get_most_recent_release_from_alias_with_version"}
Alias == <<"m", "y", "m", "o", "d">>
ReleaseArgs == {[NoArg EXCEPT !.alias = Alias, !.version = v] :
                   v \in {V_1_0, V_1_0_rc1, V_1_2_dev}}

ReleaseNext ==
    \/ \E o \in ReleaseOps, a \in ReleaseArgs : Start(1, o, a)
    \/ GetModFromAliasSend(1)
    \/ \E r \in Responses(DetailedPayloads) : GetModFromAliasResponse(1, r)
    \/ MostRecentReleaseWithVersion(1)
    \/ Finish(1)

ReleaseSpec == Init /\ [][ReleaseNext]_vars

\* ---- the random-selection methods, one caller; the slots are filled by
\* the get_mods() and get_authors() inside them and emptied by clear_all_caches()
RandomOps == {"get_random_mod", "get_random_tag", "get_random_author",
              "get_random_game_version", "get_random_comment",
              "clear_all_caches"}
RandomVersionsPayloads ==
    {VersionsOf(ns) : ns \in Prefixes(<<V_1_0_rc1, V_1_0, V_1_1_pre>>)}
RandomDetailedPayloads == {DetailedMod(i, <<>>) : i \in 1..MaxMods}

RandomNext ==
    \/ \E o \in RandomOps : Start(1, o, NoArg)
    \/ GetModsBypass(1) \/ GetModsLockRead(1) \/ GetModsRead(1)
    \/ \E r \in Responses(ModsPayloads) : GetModsResponse(1, r)
    \/ GetModsLockWrite(1) \/ GetModsWrite(1)
    \/ GetAuthorsBypass(1) \/ GetAuthorsLockRead(1) \/ GetAuthorsRead(1)
    \/ \E r \in Responses(AuthorsPayloads) : GetAuthorsResponse(1, r)
    \/ GetAuthorsLockWrite(1) \/ GetAuthorsWrite(1)
    \/ ClearModsLock(1) \/ ClearModsTake(1)
    \/ ClearAuthorsLock(1) \/ ClearAuthorsTake(1)
    \/ GetTagsSend(1)
    \/ \E r \in Responses(TagsPayloads) : GetTagsResponse(1, r)
    \/ GetGameVersionsSend(1)
    \/ \E r \in Responses(RandomVersionsPayloads) : GetGameVersionsResponse(1, r)
    \/ GetCommentsSend(1)
    \/ \E r \in Responses(CommentsPayloads) : GetCommentsResponse(1, r)
    \/ GetModFromAliasSend(1)
    \/ \E r \in Responses(RandomDetailedPayloads) : GetModFromAliasResponse(1, r)
    \/ GetRandomModChoose(1) \/ GetRandomTagChoose(1)
    \/ GetRandomAuthorChoose(1) \/ GetRandomGameVersionChoose(1)
    \/ GetRandomCommentChoose(1)
    \/ Finish(1)

RandomSpec == Init /\ [][RandomNext]_vars

\* ---- DetailedModRelease::get_filename on any release
S_bar_zip == <<"b", "a", "r", ".", "z", "i", "p">>
S_foo_zip == <<"f", "o", "o", ".", "z", "i", "p">>
S_foo == <<"f", "o", "o">>
S_x_zip == <<"x", ".", "z", "i", "p">>
S_empty == <<>>
Optional(S) == {None} \cup {Some(x) : x \in S}
FilenameReleases ==
    {DetailedModRelease(1, <<>>, f, m, x) :
        f \in Optional({S_bar_zip, S_foo_zip, S_x_zip, S_empty}),
        m \in Optional({S_foo, S_x_zip, S_empty}),
        x \in {S_x_zip, S_foo_zip, S_foo}}

FilenameNext ==
    \/ \E r \in FilenameReleases :
          Start(1, "get_filename", [NoArg EXCEPT !.self = Some(r)])
    \/ CallGetFilename(1)
    \/ Finish(1)

FilenameSpec == Init /\ [][FilenameNext]_vars

\* ---- every public method of the client, one caller
\* models.rs:62-98: a SimpleMod with the fields the searches read
NamedMod(i, name, mod_id_strs) ==
    [mod_id |-> i, name |-> name, mod_id_strs |-> mod_id_strs]

S_my_mod == <<"m", "y", " ", "m", "o", "d">>
S_mymod == <<"m", "y", "m", "o", "d">>
S_My_Mod_bang == <<"M", "y", " ", "M", "o", "d", "!">>

\* Complete, with the slots remembered for the call forgotten
Leave(c) ==
    /\ Complete(c)
    /\ before' = [before EXCEPT ![c] = <<None, None>>]
    /\ UNCHANGED <<prev, lastMods>>

ApiModsPayloads == Prefixes([i \in 1..MaxMods |-> NamedMod(i, S_my_mod, <<S_mymod>>)])
ApiVersionsPayloads ==
    {VersionsOf(ns) : ns \in Prefixes(<<V_1_0_rc1, V_1_0, V_1_1_pre>>)}
ApiDetailedPayloads ==
    {DetailedMod(1, <<>>), DetailedMod(1, ReleasesOf(<<<<V_1_0>>>>))}

\* the methods without a parameter the model keeps
PlainOps ==
    CacheOps \cup
    {"get_tags", "get_game_versions", "get_comments",
     "get_most_recent_game_version", "get_most_recent_stable_game_version",
     "get_random_mod", "get_random_tag", "get_random_author",
     "get_random_game_version", "get_random_comment", "search_mods"}
ByIdOps == {"get_mod", "get_most_recent_release"}
ByAliasOps == {"get_mod_from_alias", "get_most_recent_release_from_alias"}
ByQueryOps == {"search_name", "search_mod_id"}

\* a call of a public method with its arguments
ApiCall(c) ==
    \/ \E o \in PlainOps : Call(c, o, NoArg)
    \/ \E o \in ByIdOps : Call(c, o, [NoArg EXCEPT !.mod_id = 1])
    \/ Call(c, "get_most_recent_release_with_version",
            [NoArg EXCEPT !.mod_id = 1, !.version = V_1_0])
    \/ Call(c, "get_detailed_mod_from_simple",
            [NoArg EXCEPT !.simple = Some(NamedMod(1, S_my_mod, <<S_mymod>>))])
    \/ \E o \in ByAliasOps : Call(c, o, [NoArg EXCEPT !.alias = Alias])
    \/ Call(c, "get_most_recent_release_from_alias_with_version",
            [NoArg EXCEPT !.alias = Alias, !.version = V_1_0])
    \/ \E o \in ByQueryOps : Call(c, o, [NoArg EXCEPT !.query = S_My_Mod_bang])

\* a step of caller c outside the cache layer that waits for no response
LiveStep(c) ==
    \/ GetModFromAliasSend(c) \/ GetTagsSend(c) \/ GetGameVersionsSend(c)
    \/ GetCommentsSend(c) \/ SearchModsSend(c)
    \/ MostRecentGameVersion(c) \/ MostRecentStableGameVersion(c)
    \/ MostRecentReleaseWithVersion(c)
    \/ GetDetailedModFromSimple(c) \/ ModIdToString(c) \/ ResolveVersion(c)
    \/ SearchNameFilter(c) \/ SearchModIdFilter(c)
    \/ GetRandomModChoose(c) \/ GetRandomTagChoose(c)
    \/ GetRandomAuthorChoose(c) \/ GetRandomGameVersionChoose(c)
    \/ GetRandomCommentChoose(c)

\* the service answers a request made outside the cache layer
LiveResponse(c, mods, detailed, tags, versions, comments) ==
    \/ \E r \in Responses(detailed) : GetModFromAliasResponse(c, r)
    \/ \E r \in Responses(tags) : GetTagsResponse(c, r)
    \/ \E r \in Responses(versions) : GetGameVersionsResponse(c, r)
    \/ \E r \in Responses(comments) : GetCommentsResponse(c, r)
    \/ \E r \in Responses(mods) : SearchModsResponse(c, r)

ApiNext ==
    \/ ApiCall(1)
    \/ CacheStep(1)
    \/ CacheResponse(1, ApiModsPayloads, AuthorsPayloads)
    \/ LiveStep(1)
    \/ LiveResponse(1, ApiModsPayloads, ApiDetailedPayloads, TagsPayloads,
                    ApiVersionsPayloads, CommentsPayloads)
    \/ Leave(1)

ApiSpec == Init /\ [][ApiNext]_vars

\* ---- search_name, one caller, any names in the answer to /mods
S_mymod2 == <<"m", "y", "m", "o", "d", "2">>
S_MY_MOD == <<"M", "Y", "-", "M", "O", "D">>
S_marks == <<"!", "?">>
S_e_acute == <<"é">>
S_E_acute == <<"É">>
SearchNames == {S_my_mod, S_mymod2, S_MY_MOD, S_marks, S_e_acute}
SearchQueries == {S_My_Mod_bang, S_mymod, S_empty, S_E_acute}

\* the mods named names[1], names[2], ..., told apart by their mod_id
ModsNamed(names) == [i \in 1..Len(names) |-> NamedMod(i, names[i], <<>>)]
SearchModsPayloads == {ModsNamed(ns) : ns \in SeqsUpTo(SearchNames, MaxMods)}

SearchNext ==
    \/ \E q \in SearchQueries : Start(1, "search_name", [NoArg EXCEPT !.query = q])
    \/ Start(1, "clear_mods_cache", NoArg)
    \/ GetModsBypass(1) \/ GetModsLockRead(1) \/ GetModsRead(1)
    \/ \E r \in Responses(SearchModsPayloads) : GetModsResponse(1, r)
    \/ GetModsLockWrite(1) \/ GetModsWrite(1)
    \/ ClearModsLock(1) \/ ClearModsTake(1)
    \/ SearchNameFilter(1)
    \/ Finish(1)

SearchSpec == Init /\ [][SearchNext]_vars

\* ======================================================== properties
FetchOps == {"get_mods", "refresh_mods_cache", "get_authors",
             "refresh_authors_cache"}

\* C1: on a caching client, a successful get_mods() that follows a successful
\* get_mods() with no refresh or clear of the mods slot called in between
\* sends no request and returns the collection the earlier call returned.
C1_SecondGetModsFromCache ==
    (/\ enable_cache
     /\ pc[1] = "done" /\ op[1] = "get_mods" /\ result[1].kind = "Ok"
     /\ IsSome(lastMods))
    => /\ fetches[1] = 0
       /\ result[1].val = Unwrap(lastMods)

C1_Witness ==
    /\ enable_cache
    /\ pc[1] = "done" /\ op[1] = "get_mods" /\ result[1].kind = "Ok"
    /\ prev.op = "get_mods" /\ prev.result.kind = "Ok" /\ prev.fetches = 1
    /\ IsSome(lastMods)
    /\ fetches[1] = 0
    /\ result[1].val = prev.result.val
    /\ Len(result[1].val) > 0

\* C2 as stated: whatever enable_cache is, the get_mods() that follows a
\* refresh_mods_cache() that returned Ok returns the collection the refresh
\* fetched.
C2_Original ==
    (/\ pc[1] = "done" /\ op[1] = "get_mods"
     /\ prev.op = "refresh_mods_cache" /\ prev.result.kind = "Ok")
    => result[1] = Ok(Unwrap(prev.fetched))

\* C2 amended: on a caching client, the get_mods() that follows a
\* refresh_mods_cache() that returned Ok returns the collection the refresh
\* fetched, without a request, whatever the slot held before the refresh.
C2_GetModsAfterRefresh ==
    (/\ enable_cache
     /\ pc[1] = "done" /\ op[1] = "get_mods"
     /\ prev.op = "refresh_mods_cache" /\ prev.result.kind = "Ok")
    => /\ result[1] = Ok(Unwrap(prev.fetched))
       /\ fetches[1] = 0

C2_Witness ==
    /\ enable_cache
    /\ pc[1] = "done" /\ op[1] = "get_mods"
    /\ prev.op = "refresh_mods_cache" /\ prev.result.kind = "Ok"
    /\ IsSome(prev.before[1])
    /\ prev.before[1] # prev.fetched
    /\ result[1] = Ok(Unwrap(prev.fetched))

\* C3: clear_mods_cache() leaves the mods slot empty whatever it held, and
\* the get_mods() that follows it sends exactly one request; when that
\* request yields a collection on a caching client, the slot holds it.
C3_ClearThenGetModsFetchesOnce ==
    /\ (pc[1] = "done" /\ op[1] = "clear_mods_cache") => mods_cache = None
    /\ (pc[1] = "done" /\ op[1] = "get_mods" /\ prev.op = "clear_mods_cache")
       => /\ fetches[1] = 1
          /\ (enable_cache /\ result[1].kind = "Ok")
             => /\ mods_cache = Some(result[1].val)
                /\ local[1] = Some(result[1].val)

C3_Witness ==
    /\ enable_cache
    /\ pc[1] = "done" /\ op[1] = "get_mods" /\ prev.op = "clear_mods_cache"
    /\ IsSome(prev.before[1])
    /\ result[1].kind = "Ok"
    /\ fetches[1] = 1
    /\ mods_cache = Some(result[1].val)
    /\ mods_cache # prev.before[1]

\* C4: a get_mods(), refresh_mods_cache(), get_authors() or
\* refresh_authors_cache() whose request or decoding fails returns
\* ApiError::Http and leaves both slots as they were when the call began; on
\* a caching client the snapshot a slot held before the failed call is what
\* the following get_mods() / get_authors() returns, without a request.
C4_FailureLeavesCaches ==
    /\ (pc[1] = "done" /\ op[1] \in FetchOps /\ result[1].kind # "Ok")
       => /\ result[1] \in {ErrHttp("SendErr"), ErrHttp("DecodeErr")}
          /\ <<mods_cache, authors_cache>> = before[1]
    /\ (/\ enable_cache /\ pc[1] = "done"
        /\ prev.op \in FetchOps /\ prev.result.kind = "Http")
       => /\ (op[1] = "get_mods" /\ IsSome(prev.before[1]))
             => (result[1] = Ok(Unwrap(prev.before[1])) /\ fetches[1] = 0)
          /\ (op[1] = "get_authors" /\ IsSome(prev.before[2]))
             => (result[1] = Ok(Unwrap(prev.before[2])) /\ fetches[1] = 0)

C4_Witness ==
    /\ enable_cache
    /\ pc[1] = "done" /\ op[1] = "get_mods"
    /\ prev.op = "refresh_mods_cache" /\ prev.result = ErrHttp("DecodeErr")
    /\ IsSome(prev.before[1])
    /\ result[1] = Ok(Unwrap(prev.before[1]))
    /\ Len(result[1].val) > 0

\* C5: on a caching client every get_mods() that reads an empty mods slot
\* sends its own request, even while other callers' requests are in flight,
\* and writes the collection it fetched over whatever the slot holds by
\* then; the slot holds the collection of the caller that wrote last, and
\* each caller returns the collection it fetched itself.
C5_RacingMissesEachFetch ==
    /\ [](\A c \in Callers :
            /\ (pc[c] = "done" /\ op[c] = "get_mods" /\ fetches[c] = 1
                /\ result[c].kind = "Ok")
               => result[c].val = Unwrap(local[c])
            /\ mods_writer = c => mods_cache = local[c])
    /\ [][\A c \in Callers :
            /\ (pc[c] = "gm_read" /\ pc'[c] # "gm_read" /\ mods_cache = None)
               => (pc'[c] = "gm_wait" /\ fetches'[c] = fetches[c] + 1)
            /\ (pc[c] = "gm_write" /\ pc'[c] # "gm_write")
               => (mods_cache' = local[c] /\ mods_writer' = c)]_vars

C5_Witness ==
    \E c, d \in Callers :
        /\ c # d
        /\ enable_cache
        /\ pc[c] = "done" /\ op[c] = "get_mods" /\ fetches[c] = 1
        /\ pc[d] = "done" /\ op[d] = "get_mods" /\ fetches[d] = 1
        /\ result[c].kind = "Ok" /\ result[d].kind = "Ok"
        /\ result[c] # result[d]
        /\ mods_writer = d
        /\ mods_cache = Some(result[d].val)

InFlight(c) == pc[c] \in {"gm_wait", "rm_wait", "ga_wait", "ra_wait"}
ModsCritical == {"gm_read", "gm_write", "rm_write", "cm_take"}
AuthorsCritical == {"ga_read", "ga_write", "ra_write", "ca_take"}

\* C6: a caller whose request is in flight holds neither cache mutex; a mutex
\* is held only by a caller reading, writing or taking that slot, whose next
\* step releases it without waiting for anything; so whenever some call is
\* running, some running call can take a step.
C6_NoLockAcrossRequest ==
    /\ \A c \in Callers : InFlight(c) => (mods_lock # c /\ authors_lock # c)
    /\ mods_lock # 0 => (pc[mods_lock] \in ModsCritical
                         /\ authors_lock # mods_lock
                         /\ ENABLED CacheStep(mods_lock))
    /\ authors_lock # 0 => (pc[authors_lock] \in AuthorsCritical
                            /\ ENABLED CacheStep(authors_lock))
    /\ (\E c \in Callers : pc[c] # "idle")
       => ENABLED (\E c \in Callers :
                     \/ CacheStep(c)
                     \/ CacheResponse(c, RaceModsPayloads, RaceAuthorsPayloads)
                     \/ Finish(c))

C6_Witness ==
    \E c, d \in Callers :
        /\ c # d
        /\ pc[c] = "gm_wait"
        /\ mods_lock = d
        /\ pc[d] \in {"gm_read", "gm_write"}

\* the pre-release markers of api.rs:195
HasMarker(name) ==
    \E m \in {<<"p", "r", "e">>, <<"r", "c">>, <<"d", "e", "v">>} : Contains(name, m)

Greatest(S) == CHOOSE i \in S : \A j \in S : j <= i
Least(S) == CHOOSE i \in S : \A j \in S : i <= j

SpecExampleVersions == VersionsOf(<<V_1_0_rc1, V_1_0, V_1_1_pre>>)

\* C7: get_most_recent_stable_game_version() never returns a version whose
\* name contains "pre", "rc" or "dev"; whenever the fetched collection has a
\* version without them it returns Ok with the one nearest the end; for
\* ["1.0-rc1", "1.0", "1.1-pre"] it returns "1.0".
C7_StableIsLastUnmarked ==
    (/\ op[1] = "get_most_recent_stable_game_version"
     /\ pc[1] \in {"done", "panicked"}
     /\ IsSome(local[1]))
    => LET versions == Unwrap(local[1])
           stable == {i \in 1..Len(versions) : ~HasMarker(versions[i].name)}
       IN  /\ result[1].kind = "Ok" => ~HasMarker(result[1].val.name)
           /\ stable # {} => result[1] = Ok(versions[Greatest(stable)])
           /\ versions = SpecExampleVersions => result[1].val.name = V_1_0

C7_Witness ==
    /\ op[1] = "get_most_recent_stable_game_version"
    /\ pc[1] = "done"
    /\ local[1] = Some(SpecExampleVersions)
    /\ result[1] = Ok(GameVersion(2, V_1_0))

RandomFallible == {"get_random_mod", "get_random_tag", "get_random_author",
                   "get_random_game_version"}

\* C8 as stated: no random selection faults; over an empty collection the
\* four fallible ones return ApiError::Unexpected and get_random_comment
\* Ok(None); over a non-empty collection each returns one of its elements.
C8_Original ==
    /\ pc[1] # "panicked"
    /\ (pc[1] = "done" /\ IsSome(local[1]))
       => LET coll == Unwrap(local[1])
          IN  /\ (op[1] \in RandomFallible /\ Len(coll) = 0)
                 => result[1].kind = "Unexpected"
              /\ (op[1] \in RandomFallible /\ Len(coll) > 0)
                 => (/\ result[1].kind = "Ok"
                     /\ \E i \in 1..Len(coll) : result[1].val = coll[i])
              /\ (op[1] = "get_random_comment" /\ Len(coll) = 0)
                 => result[1] = Ok(None)
              /\ (op[1] = "get_random_comment" /\ Len(coll) > 0)
                 => \E i \in 1..Len(coll) : result[1] = Ok(Some(coll[i]))

\* C8 amended: as stated for tags, authors, game versions and comments;
\* get_random_mod over a non-empty collection returns no element of it: it
\* requests /mod/{mod_id} for one of its elements and returns the detailed
\* mod answered, or the ApiError::Http of that second request.
C8_RandomSelection ==
    /\ pc[1] # "panicked"
    /\ (pc[1] = "done" /\ IsSome(local[1]))
       => LET coll == Unwrap(local[1])
          IN  /\ (op[1] \in RandomFallible /\ Len(coll) = 0)
                 => result[1].kind = "Unexpected"
              /\ (op[1] \in RandomFallible \ {"get_random_mod"} /\ Len(coll) > 0)
                 => (/\ result[1].kind = "Ok"
                     /\ \E i \in 1..Len(coll) : result[1].val = coll[i])
              /\ (op[1] = "get_random_mod" /\ Len(coll) > 0)
                 => (/\ \E i \in 1..Len(coll) :
                           arg[1].alias = U32ToString(coll[i].mod_id)
                     /\ \/ result[1].kind = "Http"
                        \/ /\ result[1].kind = "Ok"
                           /\ result[1].val \in RandomDetailedPayloads)
              /\ (op[1] = "get_random_comment" /\ Len(coll) = 0)
                 => result[1] = Ok(None)
              /\ (op[1] = "get_random_comment" /\ Len(coll) > 0)
                 => \E i \in 1..Len(coll) : result[1] = Ok(Some(coll[i]))

C8_Witness ==
    /\ pc[1] = "done" /\ op[1] = "get_random_mod"
    /\ IsSome(local[1])
    /\ Len(Unwrap(local[1])) = MaxMods
    /\ arg[1].alias = U32ToString(MaxMods)
    /\ result[1].kind = "Ok"

\* the releases of a list whose tag list has an element equal to version
TaggedWith(releases, version) ==
    {i \in 1..Len(releases) :
        \E k \in 1..Len(releases[i].tags) : releases[i].tags[k] = version}

\* the release C9 names: the first tagged one, else the first
FirstTaggedOrFirst(releases, version) ==
    IF TaggedWith(releases, version) = {}
    THEN releases[1]
    ELSE releases[Least(TaggedWith(releases, version))]

\* C9 as stated: for every mod fetched,
\* get_most_recent_release_from_alias_with_version returns Ok with the first
\* release tagged with version, or Ok with the first release when none is.
C9_Original ==
    (/\ op[1] = "get_most_recent_release_from_alias_with_version"
     /\ pc[1] \in {"done", "panicked"}
     /\ IsSome(local[1]))
    => /\ result[1].kind = "Ok"
       /\ Len(Unwrap(local[1]).releases) > 0
          => result[1] = Ok(FirstTaggedOrFirst(Unwrap(local[1]).releases,
                                               arg[1].version))

\* C9 amended: for every mod fetched whose release list is not empty it
\* returns Ok with the first release tagged with version, or Ok with the
\* first release when none is; for a mod without releases it panics.
C9_FirstTaggedRelease ==
    (/\ op[1] = "get_most_recent_release_from_alias_with_version"
     /\ pc[1] \in {"done", "panicked"}
     /\ IsSome(local[1]))
    => LET releases == Unwrap(local[1]).releases
       IN  IF Len(releases) > 0
           THEN /\ pc[1] = "done"
                /\ result[1] = Ok(FirstTaggedOrFirst(releases, arg[1].version))
           ELSE /\ pc[1] = "panicked"
                /\ result[1] = Panic

C9_Witness ==
    /\ op[1] = "get_most_recent_release_from_alias_with_version"
    /\ pc[1] = "done"
    /\ IsSome(local[1])
    /\ LET releases == Unwrap(local[1]).releases
       IN  /\ Len(releases) = 3
           /\ TaggedWith(releases, arg[1].version) = {2, 3}
           /\ result[1] = Ok(releases[2])

\* C10: get_filename returns the filename when there is one, whatever the
\* other fields are; else mod_id_str followed by ".zip" when there is a
\* mod_id_str; else main_file.  (None, Some("foo"), "x.zip") gives "foo.zip".
C10_FilenamePrecedence ==
    (pc[1] = "done" /\ op[1] = "get_filename")
    => LET self == Unwrap(arg[1].self)
       IN  /\ result[1].kind = "Ok"
           /\ self.filename # None => result[1].val = self.filename[1]
           /\ (self.filename = None /\ self.mod_id_str # None)
              => result[1].val = self.mod_id_str[1] \o <<".", "z", "i", "p">>
           /\ (self.filename = None /\ self.mod_id_str = None)
              => result[1].val = self.main_file
           /\ (self.filename = None /\ self.mod_id_str = Some(S_foo)
               /\ self.main_file = S_x_zip)
              => result[1].val = S_foo_zip
           /\ self.filename = Some(S_bar_zip) => result[1].val = S_bar_zip

C10_Witness ==
    /\ pc[1] = "done" /\ op[1] = "get_filename"
    /\ arg[1].self = Some(DetailedModRelease(1, <<>>, None, Some(S_foo), S_x_zip))
    /\ result[1] = Ok(S_foo_zip)

\* ------------------------------------------------------------------ C11
\* a call that has run to its end: it returned, or it panicked
Ended(c) == pc[c] \in {"done", "panicked"}
\* the slot the call found populated on a caching client
ModsHit(c) == enable_cache /\ IsSome(before[c][1])
AuthorsHit(c) == enable_cache /\ IsSome(before[c][2])

OneTripOps ==
    {"refresh_mods_cache", "refresh_authors_cache", "get_mod",
     "get_mod_from_alias", "get_detailed_mod_from_simple", "search_mods",
     "get_tags", "get_game_versions", "get_comments",
     "get_most_recent_game_version", "get_most_recent_stable_game_version",
     "get_most_recent_release_with_version",
     "get_most_recent_release_from_alias_with_version",
     "get_random_tag", "get_random_game_version", "get_random_comment"}

\* C11 as stated: a call that goes to the network performs exactly one round
\* trip, except get_most_recent_release_from_alias, which performs two;
\* search_name and search_mod_id perform one, or none when caching is enabled
\* and the mods slot is populated.
C11_Original ==
    Ended(1) =>
        /\ op[1] = "get_most_recent_release_from_alias" => fetches[1] = 2
        /\ op[1] \in {"search_name", "search_mod_id"}
              => fetches[1] = IF ModsHit(1) THEN 0 ELSE 1
        /\ (op[1] # "get_most_recent_release_from_alias" /\ fetches[1] > 0)
              => fetches[1] = 1

\* C11 amended: a call sends at most two requests.  The refreshes, the
\* lookups of one mod, search_mods, the tags, game-version and comment
\* methods, the release lookups given a version and the random tag, version
\* and comment send exactly one.  get_mods, search_name and search_mod_id send
\* one, or none when caching is enabled and the mods slot is populated;
\* get_authors and get_random_author likewise for the authors slot.
\* get_most_recent_release and get_most_recent_release_from_alias send one
\* request for the game versions and a second for the mod only when a stable
\* version was resolved.  get_random_mod sends the request of its get_mods()
\* (one, or none on a cache hit) and one more for the mod it selected, if any.
\* The clearing methods send none.
C11_RoundTrips ==
    Ended(1) =>
        /\ fetches[1] <= 2
        /\ op[1] \in OneTripOps => fetches[1] = 1
        /\ op[1] \in {"get_mods", "search_name", "search_mod_id"}
              => fetches[1] = IF ModsHit(1) THEN 0 ELSE 1
        /\ op[1] \in {"get_authors", "get_random_author"}
              => fetches[1] = IF AuthorsHit(1) THEN 0 ELSE 1
        /\ op[1] \in {"get_most_recent_release", "get_most_recent_release_from_alias"}
              => fetches[1] = IF arg[1].version # <<>> THEN 2 ELSE 1
        /\ op[1] = "get_random_mod"
              => fetches[1] = (IF ModsHit(1) THEN 0 ELSE 1)
                              + (IF arg[1].alias # <<>> THEN 1 ELSE 0)
        /\ op[1] \in {"clear_mods_cache", "clear_authors_cache", "clear_all_caches"}
              => fetches[1] = 0

\* get_random_mod on a client without caching has returned a mod after two
\* round trips
C11_Witness ==
    /\ pc[1] = "done"
    /\ op[1] = "get_random_mod"
    /\ ~enable_cache
    /\ result[1].kind = "Ok"
    /\ fetches[1] = 2

\* ------------------------------------------------------------------ C12
RECURSIVE Canonical(_)
\* a name or a query without its ASCII whitespace and ASCII punctuation and
\* with its ASCII letters in lower case
Canonical(s) ==
    IF s = <<>> THEN <<>>
    ELSE IF IsAsciiWhitespace(Head(s)) \/ IsAsciiPunctuation(Head(s))
         THEN Canonical(Tail(s))
         ELSE <<CharToAsciiLowercase(Head(s))>> \o Canonical(Tail(s))

\* the positions in mods of the mods whose name is the query, both canonical
MatchingPositions(mods, query) ==
    {i \in 1..Len(mods) : Canonical(mods[i].name) = Canonical(query)}

\* the k-th smallest element of the set S of numbers
Kth(S, k) == CHOOSE i \in S : Cardinality({j \in S : j <= i}) = k

\* C12: search_name(query) returns exactly the mods of its get_mods() whose
\* name equals the query once ASCII whitespace and punctuation are removed
\* from both and ASCII letter case is ignored, in their original order.
C12_SearchNameExactMatches ==
    (pc[1] = "done" /\ op[1] = "search_name" /\ IsSome(local[1]))
    => LET mods == Unwrap(local[1])
           found == MatchingPositions(mods, arg[1].query)
       IN  /\ result[1].kind = "Ok"
           /\ Len(result[1].val) = Cardinality(found)
           /\ \A k \in 1..Cardinality(found) :
                  result[1].val[k] = mods[Kth(found, k)]

\* search_name("My Mod!") has returned the mod named "my mod" and left out
\* the one named "mymod2" that stood before it
C12_Witness ==
    /\ pc[1] = "done"
    /\ op[1] = "search_name"
    /\ arg[1].query = S_My_Mod_bang
    /\ local[1] = Some(ModsNamed(<<S_mymod2, S_my_mod>>))
    /\ result[1] = Ok(<<NamedMod(2, S_my_mod, <<>>)>>)

\* ------------------------------------------------------------------ C13
\* C13: when every version of the fetched collection has a name containing
\* "pre", "rc" or "dev", get_most_recent_stable_game_version() ends in a
\* fault: it returns neither a version nor an ApiError, and it has sent one
\* request.
C13_NoStableVersionFaults ==
    (/\ op[1] = "get_most_recent_stable_game_version"
     /\ pc[1] \in {"done", "panicked"}
     /\ IsSome(local[1])
     /\ \A i \in 1..Len(Unwrap(local[1])) : HasMarker(Unwrap(local[1])[i].name))
    => /\ pc[1] = "panicked"
       /\ result[1] = Panic
       /\ fetches[1] = 1

\* the scan has run off the front of ["1.1-pre", "1.2-dev"]
C13_Witness ==
    /\ op[1] = "get_most_recent_stable_game_version"
    /\ pc[1] = "panicked"
    /\ local[1] = Some(VersionsOf(<<V_1_1_pre, V_1_2_dev>>))
    /\ fetches[1] = 1

\* ------------------------------------------------------------------ C14
\* the methods that run get_mods(), and those that run get_authors()
ViaGetMods == {"get_mods", "search_name", "search_mod_id", "get_random_mod"}
ViaGetAuthors == {"get_authors", "get_random_author"}
ModsOnlyOps == ViaGetMods \cup {"refresh_mods_cache", "clear_mods_cache"}
AuthorsOnlyOps == ViaGetAuthors \cup {"refresh_authors_cache", "clear_authors_cache"}
\* the methods the claim names as leaving both slots alone
LiveOps ==
    {"get_mod", "get_mod_from_alias", "search_mods", "get_tags",
     "get_game_versions", "get_comments", "get_most_recent_game_version",
     "get_most_recent_stable_game_version", "get_most_recent_release",
     "get_most_recent_release_from_alias",
     "get_most_recent_release_with_version",
     "get_most_recent_release_from_alias_with_version"}

\* what a step of caller c may do to the slots and their locks
SlotFrame(c) ==
    /\ mods_cache' # mods_cache =>
          \/ /\ pc[c] = "gm_write" /\ op[c] \in ViaGetMods
             /\ enable_cache /\ before[c][1] = None
          \/ pc[c] = "rm_write" /\ op[c] = "refresh_mods_cache"
          \/ pc[c] = "cm_take" /\ op[c] \in {"clear_mods_cache", "clear_all_caches"}
    /\ authors_cache' # authors_cache =>
          \/ /\ pc[c] = "ga_write" /\ op[c] \in ViaGetAuthors
             /\ enable_cache /\ before[c][2] = None
          \/ pc[c] = "ra_write" /\ op[c] = "refresh_authors_cache"
          \/ pc[c] = "ca_take" /\ op[c] \in {"clear_authors_cache", "clear_all_caches"}
    /\ op[c] \in ModsOnlyOps => authors_cache' = authors_cache /\ authors_lock' = 0
    /\ op[c] \in AuthorsOnlyOps => mods_cache' = mods_cache /\ mods_lock' = 0
    /\ op[c] \in LiveOps =>
          /\ mods_cache' = mods_cache /\ authors_cache' = authors_cache
          /\ mods_lock' = 0 /\ authors_lock' = 0

\* C14: the mods slot is changed only by get_mods() on a miss with caching
\* enabled, by refresh_mods_cache(), clear_mods_cache() and
\* clear_all_caches(); the authors slot only by get_authors() on a miss with
\* caching enabled, by refresh_authors_cache(), clear_authors_cache() and
\* clear_all_caches(); an operation of one slot neither changes nor locks the
\* other; and the live methods change neither slot and take neither lock,
\* so they never read a slot.
C14_SlotsTouchedByOwnOperations ==
    [][\A c \in Callers : pc'[c] # pc[c] => SlotFrame(c)]_vars

\* get_most_recent_release_from_alias has returned a release after two
\* requests, with both slots populated and as they were when it was called
C14_Witness ==
    /\ pc[1] = "done"
    /\ op[1] = "get_most_recent_release_from_alias"
    /\ result[1].kind = "Ok"
    /\ IsSome(mods_cache) /\ IsSome(authors_cache)
    /\ before[1] = <<mods_cache, authors_cache>>

\* ------------------------------------------------------------------ C15
\* C15: on a client built with caching disabled every get_mods() sends
\* exactly one request and returns what that request gave, its collection or
\* its error, whatever the mods slot holds; refresh_mods_cache() fails only
\* when its request does, and otherwise leaves the collection it fetched in
\* the slot.
C15_UncachedGetModsAlwaysFetches ==
    (~enable_cache /\ pc[1] = "done")
    => /\ op[1] = "get_mods" =>
             /\ fetches[1] = 1
             /\ IF IsSome(local[1])
                THEN result[1] = Ok(Unwrap(local[1]))
                ELSE result[1].kind = "Http"
       /\ op[1] = "refresh_mods_cache" =>
             IF IsSome(local[1])
             THEN result[1] = Ok(<<>>) /\ mods_cache = local[1]
             ELSE result[1].kind = "Http"

\* caching disabled: after a refresh has left a snapshot in the slot,
\* get_mods() has fetched and returned a different collection
C15_Witness ==
    /\ ~enable_cache
    /\ pc[1] = "done" /\ op[1] = "get_mods"
    /\ prev.op = "refresh_mods_cache" /\ prev.result.kind = "Ok"
    /\ mods_cache = prev.fetched
    /\ fetches[1] = 1
    /\ result[1].kind = "Ok"
    /\ Some(result[1].val) # mods_cache

====
